---- MODULE Spec2Model ----
(***************************************************************************)
(* Model of the Igor CLI installer (src/src/main.rs).                      *)
(*                                                                         *)
(* The program is one sequential process.  Its state is the host file      *)
(* system, the command line it was started with, the program position and  *)
(* the locals of install_procedure_files / link_files, and what it printed *)
(* and returned.                                                           *)
(*                                                                         *)
(* Text is a sequence of characters.  The characters an input can contain  *)
(* are the single characters of Alphabet and of the typed lines; a literal *)
(* of the program or a host name that no input can spell is kept as one    *)
(* element (".igor", "user", "Igor Pro ", ...).                            *)
(* A path is [abs, comps, trail]: whether it has a root, its components -  *)
(* what std::path::Path compares - and whether its text ends in a          *)
(* separator, which makes the file system require a directory there.       *)
(* The host has a home directory and a documents directory, so the two     *)
(* expect() calls do not panic, and read_line does not fail; nothing else  *)
(* changes the file system while the program runs.                         *)
(***************************************************************************)
EXTENDS Integers, Sequences, FiniteSets, TLC

(***************************************************************************)
(* Bounds                                                                  *)
(***************************************************************************)
MaxSrcLen == 4
MaxRuns == 2
MaxUserChildren == 2
MaxIgorChildren == 1
MaxHops == 3

Alphabet == {"h", "t", "p", "g", "i", "/", "G"}

(***************************************************************************)
(* Text                                                                    *)
(***************************************************************************)
Sep == "/"

\* str::starts_with
StartsWith(s, pre) ==
    /\ Len(s) >= Len(pre)
    /\ SubSeq(s, 1, Len(pre)) = pre

\* str::split(sep): the segments between separators, always at least one
RECURSIVE Split(_, _)
Split(s, sep) ==
    IF \A i \in 1..Len(s) : s[i] # sep
    THEN << s >>
    ELSE LET k == CHOOSE i \in 1..Len(s) :
                      /\ s[i] = sep
                      /\ \A j \in 1..(i - 1) : s[j] # sep
         IN  << SubSeq(s, 1, k - 1) >> \o Split(SubSeq(s, k + 1, Len(s)), sep)

IsSpace(c) == c \in {" ", "\n", "\t", "\r"}

\* str::trim: surrounding white space removed
RECURSIVE Trim(_)
Trim(s) ==
    IF s = << >> THEN s
    ELSE IF IsSpace(s[1]) THEN Trim(Tail(s))
    ELSE IF IsSpace(s[Len(s)]) THEN Trim(SubSeq(s, 1, Len(s) - 1))
    ELSE s

\* All texts over a set of characters, up to a length
RECURSIVE TextsOfLen(_, _)
TextsOfLen(chars, n) ==
    IF n = 0 THEN { << >> }
    ELSE { Append(t, c) : t \in TextsOfLen(chars, n - 1), c \in chars }

TextsUpTo(chars, n) == UNION { TextsOfLen(chars, k) : k \in 0..n }

(***************************************************************************)
(* Option values                                                           *)
(***************************************************************************)
Some(x) == [some |-> TRUE, v |-> x]
NoText == [some |-> FALSE, v |-> << >>]

(***************************************************************************)
(* Paths                                                                   *)
(***************************************************************************)
\* Path::new: a leading separator is the root; empty segments are no components;
\* a separator after the last component is kept in the text
PathNew(s) ==
    LET cs == SelectSeq(Split(s, Sep), LAMBDA c : c # << >>)
    IN  [abs |-> (Len(s) > 0 /\ s[1] = Sep),
         comps |-> cs,
         trail |-> (cs # << >> /\ s[Len(s)] = Sep)]

\* The empty path "" names nothing: every lookup of it fails (not found)
IsEmptyPath(p) == ~p.abs /\ p.comps = << >>

\* Path::join: a rooted argument replaces the path, another one extends it; the
\* empty argument leaves the components and ends the text in a separator
Join(p, s) ==
    LET q == PathNew(s)
    IN  IF q.abs THEN q
        ELSE IF s = << >>
               THEN [abs |-> p.abs, comps |-> p.comps, trail |-> (p.comps # << >>)]
        ELSE [abs |-> p.abs, comps |-> p.comps \o q.comps,
              trail |-> (IF q.comps = << >> THEN p.trail ELSE q.trail)]

EmptyPath == [abs |-> FALSE, comps |-> << >>, trail |-> FALSE]
NoPath == [some |-> FALSE, v |-> EmptyPath]

\* Host locations
Cwd == << <<"t">> >>
HomeDir == [abs |-> TRUE, comps |-> << <<"home">> >>, trail |-> FALSE]
DocumentDir == [abs |-> TRUE, comps |-> << <<"docs">> >>, trail |-> FALSE]
WaveMetricsDir ==
    [abs |-> TRUE, comps |-> << <<"Program Files">>, <<"WaveMetrics">> >>, trail |-> FALSE]
LocalRepo == << <<"t">>, <<"p">> >>

\* Where a host keeps what a link stands for: the directory a linked local
\* source, a linked cache root and a linked install root point at
LocalStore == << <<"t">>, <<"q">> >>
CacheStore == << <<"home">>, <<"store">> >>
InstallStore == << <<"Program Files">>, <<"wm">> >>
LinkTo(l, kind) ==
    [type |-> "symlink", linkkind |-> kind,
     target |-> [abs |-> TRUE, comps |-> l, trail |-> FALSE]]
RelativeLinkTo(name, kind) ==
    [type |-> "symlink", linkkind |-> kind,
     target |-> [abs |-> FALSE, comps |-> << name >>, trail |-> FALSE]]

\* The location a path spells: a relative path is taken from the working directory
Locate(p) == IF p.abs THEN p.comps ELSE Cwd \o p.comps

IsPrefix(a, b) == Len(a) <= Len(b) /\ SubSeq(b, 1, Len(a)) = a

(***************************************************************************)
(* The file system: a function from locations to nodes.  A link stores its *)
(* target as it was given; a lookup follows the links it meets, in the     *)
(* directories of the path and at its end.                                 *)
(***************************************************************************)
DirNode == [type |-> "dir", linkkind |-> "none", target |-> EmptyPath]
FileNode == [type |-> "file", linkkind |-> "none", target |-> EmptyPath]
ElsewhereDir == [abs |-> TRUE, comps |-> << <<"elsewhere">>, <<"d">> >>, trail |-> FALSE]
ElsewhereFile == [abs |-> TRUE, comps |-> << <<"elsewhere">>, <<"f">> >>, trail |-> FALSE]
ElsewhereNone == [abs |-> TRUE, comps |-> << <<"elsewhere">>, <<"none">> >>, trail |-> FALSE]

ChildKinds == {"file", "dir", "symfile", "symdir", "broken"}

KindNode(k) ==
    CASE k = "file" -> FileNode
      [] k = "dir" -> DirNode
      [] k = "symfile" -> [type |-> "symlink", linkkind |-> "file", target |-> ElsewhereFile]
      [] k = "symdir" -> [type |-> "symlink", linkkind |-> "dir", target |-> ElsewhereDir]
      [] k = "broken" -> [type |-> "symlink", linkkind |-> "file", target |-> ElsewhereNone]

Parent(l) == SubSeq(l, 1, Len(l) - 1)
LastOf(l) == l[Len(l)]

\* The outcome of a lookup: the location of the node it reached, or nothing
NoWhere == [ok |-> FALSE, loc |-> << >>]
At(l) == [ok |-> TRUE, loc |-> l]

\* Where the link at a location points: a relative target is taken from the
\* directory holding the link
TargetOf(f, m) ==
    IF f[m].target.abs THEN f[m].target.comps ELSE Parent(m) \o f[m].target.comps

\* The node a spelled location leads to: every directory on the way is entered,
\* through a link where it is one, and a link at the end is followed too; nothing
\* when a component is missing, goes through a file, the links do not end, or a
\* link's target is empty or ends in a separator without leading to a directory
RECURSIVE Follow(_, _, _)
Follow(f, l, hops) ==
    IF l = << >> THEN [ok |-> (<< >> \in DOMAIN f), loc |-> << >>]
    ELSE LET d == Follow(f, Parent(l), hops)
             m == Append(d.loc, LastOf(l))
         IN  IF ~d.ok THEN NoWhere
             ELSE IF f[d.loc].type # "dir" THEN NoWhere
             ELSE IF m \notin DOMAIN f THEN NoWhere
             ELSE IF f[m].type # "symlink" THEN At(m)
             ELSE IF hops = 0 \/ IsEmptyPath(f[m].target) THEN NoWhere
             ELSE LET r == Follow(f, TargetOf(f, m), hops - 1)
                  IN  IF ~r.ok THEN NoWhere
                      ELSE IF f[m].target.trail /\ f[r.loc].type # "dir" THEN NoWhere
                      ELSE r

\* Where the entry a location spells sits: in the directory its parent leads to,
\* the last component taken as it is
Spot(f, l) ==
    IF l = << >> THEN NoWhere
    ELSE LET d == Follow(f, Parent(l), MaxHops)
         IN  IF d.ok /\ f[d.loc].type = "dir" THEN At(Append(d.loc, LastOf(l)))
             ELSE NoWhere

\* The node the lookup of a path reaches
Reach(f, p) == Follow(f, Locate(p), MaxHops)

\* The lookup of the path reaches a node: the empty path reaches none, and a
\* path ending in a separator reaches only what is a directory
Named(f, p) ==
    /\ ~IsEmptyPath(p)
    /\ Reach(f, p).ok
    /\ p.trail => f[Reach(f, p).loc].type = "dir"

\* Path::exists, Path::is_file, Path::is_dir: all follow links
Exists(f, p) == Named(f, p)
IsFile(f, p) == Named(f, p) /\ f[Reach(f, p).loc].type = "file"
IsDir(f, p) == Named(f, p) /\ f[Reach(f, p).loc].type = "dir"

\* fs::read_dir: the names of the immediate children; an error unless a directory
ReadDirOk(f, p) == IsDir(f, p)
ReadDir(f, p) ==
    { LastOf(m) : m \in { n \in DOMAIN f : Len(n) > 0 /\ Parent(n) = Reach(f, p).loc } }

\* symlink_file / symlink_dir: fail when the link path is taken, is empty or ends
\* in a separator, when its directory is missing, or when the process may not
\* create links
SymlinkOk(f, dst, mayLink) ==
    /\ mayLink
    /\ ~IsEmptyPath(dst)
    /\ ~dst.trail
    /\ Spot(f, Locate(dst)).ok
    /\ Spot(f, Locate(dst)).loc \notin DOMAIN f

\* The node a created link is: it stores the source path as given
LinkNode(src, kind) == [type |-> "symlink", linkkind |-> kind, target |-> src]

WithNode(f, l, n) == [m \in DOMAIN f \cup {l} |-> IF m = l THEN n ELSE f[m]]

WithLink(f, src, dst, kind) == WithNode(f, Spot(f, Locate(dst)).loc, LinkNode(src, kind))

MkFs(S) == [l \in { r.loc : r \in S } |-> (CHOOSE r \in S : r.loc = l).node]

WithNodes(f, S) ==
    [l \in DOMAIN f \cup { r.loc : r \in S } |->
        IF l \in { r.loc : r \in S } THEN (CHOOSE r \in S : r.loc = l).node ELSE f[l]]

\* fs::create_dir_all succeeds when the location leads to a directory already, or
\* when it is free and its parent can be made; a file or a dangling link in the
\* way is an error, and nothing is added then
RECURSIVE CreateDirAllOk(_, _)
CreateDirAllOk(f, l) ==
    IF Follow(f, l, MaxHops).ok THEN f[Follow(f, l, MaxHops).loc].type = "dir"
    ELSE IF Spot(f, l).ok /\ Spot(f, l).loc \in DOMAIN f THEN FALSE
    ELSE l # << >> /\ CreateDirAllOk(f, Parent(l))

\* Where Repository::clone writes: the directory the path leads to, or the free
\* entry it spells
CloneLoc(f, dir) ==
    IF Reach(f, dir).ok THEN Reach(f, dir).loc ELSE Spot(f, Locate(dir)).loc

\* Repository::clone into a path: the remote answers, and the path is free in a
\* directory that is there, or leads to an empty directory
CloneOk(f, dir, rem) ==
    /\ rem.reachable
    /\ ~IsEmptyPath(dir)
    /\ IF Reach(f, dir).ok
         THEN /\ f[Reach(f, dir).loc].type = "dir"
              /\ ReadDir(f, dir) = { }
         ELSE /\ Spot(f, Locate(dir)).ok
              /\ Spot(f, Locate(dir)).loc \notin DOMAIN f

\* fs::create_dir_all, where it succeeds
RECURSIVE CreateDirAll(_, _)
CreateDirAll(f, l) ==
    IF Follow(f, l, MaxHops).ok THEN f
    ELSE IF l = << >> THEN WithNode(f, l, DirNode)
    ELSE LET f1 == CreateDirAll(f, Parent(l))
         IN  WithNode(f1, Spot(f1, l).loc, DirNode)

(***************************************************************************)
(* Repository layouts: what a local directory or a remote repository holds *)
(***************************************************************************)
UserNameTable == << <<"a.ipf">>, <<"b">>, <<"c">>, <<"d">> >>
IgorNameTable == << <<"y.ipf">>, <<"z">>, <<"w">> >>
UserNames == { UserNameTable[i] : i \in 1..MaxUserChildren }
IgorNames == { IgorNameTable[i] : i \in 1..MaxIgorChildren }

UserText == <<"user">>
IgorText == <<"igor">>
Nested == <<"n.ipf">>

RoleKinds == {"absent", "file", "dir"}
ChildMaps(names) == [names -> ChildKinds \cup {"absent"}]
NoChildren(names) == [n \in names |-> "absent"]

Layouts ==
    { [user |-> u, igor |-> g, uch |-> uc, ich |-> ic] :
        u \in RoleKinds, g \in RoleKinds,
        uc \in ChildMaps(UserNames), ic \in ChildMaps(IgorNames) }

WellFormed(lay) ==
    /\ lay.user # "dir" => lay.uch = NoChildren(UserNames)
    /\ lay.igor # "dir" => lay.ich = NoChildren(IgorNames)

AllLayouts == { lay \in Layouts : WellFormed(lay) }

GoodLayout ==
    [user |-> "dir", igor |-> "dir",
     uch |-> [n \in UserNames |-> IF n = <<"b">> THEN "dir" ELSE "file"],
     ich |-> [n \in IgorNames |-> "file"]]

SmallLayouts ==
    { GoodLayout,
      [GoodLayout EXCEPT !.igor = "absent", !.ich = NoChildren(IgorNames)],
      [GoodLayout EXCEPT !.igor = "file", !.ich = NoChildren(IgorNames)],
      [GoodLayout EXCEPT !.user = "file", !.uch = NoChildren(UserNames)],
      [GoodLayout EXCEPT !.user = "absent", !.uch = NoChildren(UserNames)] }

\* The nodes of one role directory of a layout
RoleNodes(base, role, kind, ch) ==
    IF kind = "absent" THEN { }
    ELSE IF kind = "file" THEN { [loc |-> Append(base, role), node |-> FileNode] }
    ELSE { [loc |-> Append(base, role), node |-> DirNode] }
         \cup { [loc |-> base \o << role, n >>, node |-> KindNode(ch[n])] :
                    n \in { m \in DOMAIN ch : ch[m] # "absent" } }
         \cup { [loc |-> base \o << role, n, Nested >>, node |-> FileNode] :
                    n \in { m \in DOMAIN ch : ch[m] = "dir" } }

TreeNodes(base, lay) ==
    { [loc |-> base, node |-> DirNode] }
    \cup RoleNodes(base, UserText, lay.user, lay.uch)
    \cup RoleNodes(base, IgorText, lay.igor, lay.ich)

(***************************************************************************)
(* The pure functions of the program                                       *)
(***************************************************************************)
HttpText == <<"h", "t", "t", "p">>
GitText == <<"g", "i", "t">>
RepositoryText == <<"repository">>
DotIgorText == <<".igor">>
UserProcedures == <<"User Procedures">>
IgorProcedures == <<"Igor Procedures">>

\* a plausible slip: only the first prefix is tested
is_git_url_http_only(repo) == StartsWith(repo, HttpText)

\* is_git_url
is_git_url(repo) == StartsWith(repo, HttpText) \/ StartsWith(repo, GitText)

\* a plausible slip: a missing source falls back to a default directory
RepoPathArg_default(a) ==
    IF a.git.some THEN a.git ELSE IF a.path.some THEN a.path ELSE Some(<<"p">>)

\* main: get_one("git").or(get_one("path"))
RepoPathArg(a) == IF a.git.some THEN a.git ELSE a.path

\* clone_repository_into_igor: home_dir.join(".igor")
IgorCacheDir == Join(HomeDir, DotIgorText)

\* clone_repository_into_igor: repo.split('/').last().unwrap_or("repository")
RepoName(repo) ==
    LET parts == Split(repo, Sep)
    IN  IF Len(parts) = 0 THEN RepositoryText ELSE parts[Len(parts)]

\* clone_repository_into_igor: igor_dir.join(repo_name)
RepoDirOf(repo) == Join(IgorCacheDir, RepoName(repo))

\* a plausible slip: the clone is made whether or not the directory is there
NeedsClone_always(f, dir) == TRUE

\* clone_repository_into_igor: the clone happens only when the directory is missing
NeedsClone(f, dir) == ~Exists(f, dir)

\* get_wave_metrics_path
get_wave_metrics_path(version, folder_type) ==
    Join(DocumentDir,
         <<"WaveMetrics", Sep, "Igor Pro ">> \o version \o <<" User Files", Sep>> \o folder_type)

\* list_igor_versions: the names of the directories under the install root
ListedVersions(f) ==
    { n \in ReadDir(f, WaveMetricsDir) : IsDir(f, Join(WaveMetricsDir, n)) }

\* install_procedure_files: the structure check
StructureOk(f, dir) == Exists(f, Join(dir, UserText)) /\ Exists(f, Join(dir, IgorText))

\* link_files: the entries the loop visits
LinkEntries(f, src_dir) == ReadDir(f, src_dir)

\* link_files: the kind of link an entry gets, "skip" for an entry it passes over
EntryKind(f, src_path) ==
    IF IsFile(f, src_path) THEN "file"
    ELSE IF IsDir(f, src_path) THEN "dir"
    ELSE "skip"

Perms(S) ==
    { q \in [1..Cardinality(S) -> S] : \A i, j \in 1..Cardinality(S) : i # j => q[i] # q[j] }

Msg(m, a) == [msg |-> m, arg |-> a]

(***************************************************************************)
(* The hosts and command lines the runs start from                         *)
(***************************************************************************)
V90 == <<"9", ".", "0">>
V100 == <<"1", "0", ".", "0">>
V81 == <<"8", ".", "1">>
VersionNames == {V90, V100, V81}

\* What the user may type at the prompt (the empty text is end of input)
TypedLines ==
    { <<"9", ".", "0", "\n">>, <<" ", "9", ".", "0", " ", "\r", "\n">>,
      <<"1", "0", ".", "0", "\n">>, <<"8", ".", "1", "\n">>, <<"\n">>, << >> }

DefaultHost ==
    [argv |-> [cmd |-> "install", git |-> NoText, path |-> Some(<<"p">>), version |-> Some(V90)],
     local |-> [present |-> TRUE, via |-> "dir", lay |-> GoodLayout],
     remote |-> [reachable |-> TRUE, lay |-> GoodLayout],
     cache |-> [root |-> "absent", cloned |-> FALSE, lay |-> GoodLayout],
     install |-> [present |-> TRUE, dirs |-> VersionNames, file |-> FALSE, link |-> FALSE],
     dest |-> [provisioned |-> TRUE, upre |-> { }, ipre |-> { }],
     mayLink |-> TRUE]

\* Every source text up to the length bound, given with --git
SourceHosts ==
    { [DefaultHost EXCEPT !.argv.git = Some(s), !.argv.path = NoText] :
        s \in TextsUpTo(Alphabet, MaxSrcLen) }

\* Every layout of the local directory
LayoutHosts ==
    { [DefaultHost EXCEPT !.local.lay = lay] : lay \in AllLayouts }

\* Destinations: missing, holding entries already, or links not permitted
DestHosts ==
    { [DefaultHost EXCEPT !.argv.path = Some(s), !.dest = d, !.mayLink = m] :
        s \in { <<"p">>, <<"/", "t", "/", "p">> },
        d \in [provisioned : BOOLEAN, upre : SUBSET UserNames, ipre : SUBSET IgorNames],
        m \in BOOLEAN }

\* Commands, flags and the install root
InstallRoots ==
    { [present |-> FALSE, dirs |-> { }, file |-> FALSE, link |-> FALSE],
      [present |-> TRUE, dirs |-> { }, file |-> FALSE, link |-> FALSE],
      [present |-> TRUE, dirs |-> { }, file |-> TRUE, link |-> FALSE],
      [present |-> TRUE, dirs |-> {V90}, file |-> TRUE, link |-> FALSE],
      [present |-> TRUE, dirs |-> VersionNames, file |-> FALSE, link |-> FALSE],
      [present |-> TRUE, dirs |-> VersionNames, file |-> FALSE, link |-> TRUE] }

CommandHosts ==
    { [DefaultHost EXCEPT !.argv = a, !.install = r] :
        a \in [cmd : {"install", "versions", "none"},
               git : {NoText, Some(<<"g", "i", "t", "/", "p">>)},
               path : {NoText, Some(<<"p">>)},
               version : {NoText, Some(V90), Some(V100)}],
        r \in InstallRoots }

\* Remote sources, what they serve and what the cache holds
RemoteTexts ==
    { <<"g", "i", "t", "/", "p">>, <<"g", "i", "t", "/">>, <<"g", "i", "t">>,
      <<"h", "t", "t", "p", ":", "/", "/", "h", "/", "p">>,
      <<"h", "t", "t", "p", ":", "/", "/", "h", "/", "p", "/">>,
      <<"h", "t", "t", "p">> }

CacheHosts ==
    { [DefaultHost EXCEPT !.argv.git = Some(s), !.argv.path = NoText,
                          !.remote = r, !.cache = c] :
        s \in RemoteTexts,
        r \in { [reachable |-> TRUE, lay |-> lay] : lay \in SmallLayouts }
              \cup { [reachable |-> FALSE, lay |-> GoodLayout] },
        c \in { [root |-> k, cloned |-> FALSE, lay |-> GoodLayout] :
                    k \in {"absent", "dir", "file", "broken", "link"} }
              \cup { [root |-> k, cloned |-> TRUE, lay |-> lay] :
                        k \in {"dir", "link"}, lay \in SmallLayouts } }

\* A local source that is a link to the directory holding the repository
LinkedHosts ==
    { [DefaultHost EXCEPT !.argv.path = Some(s), !.argv.version = v,
                          !.local.via = "link", !.local.lay = lay] :
        s \in { <<"p">>, <<"/", "t", "/", "p">> },
        v \in { NoText, Some(V90) },
        lay \in SmallLayouts }

Hosts ==
    SourceHosts \cup LayoutHosts \cup DestHosts \cup CommandHosts \cup CacheHosts
    \cup LinkedHosts

DirsAt(locs) == { [loc |-> l, node |-> DirNode] : l \in locs }

DestRoot(version) == Parent(Locate(get_wave_metrics_path(version, UserProcedures)))

\* The directories the cache and the install root of a host really are
CacheReal(h) == IF h.cache.root = "link" THEN CacheStore ELSE Locate(IgorCacheDir)
InstallReal(h) == IF h.install.link THEN InstallStore ELSE WaveMetricsDir.comps

HostNodes(h) ==
    DirsAt({ << >>, Cwd, HomeDir.comps, DocumentDir.comps, Parent(WaveMetricsDir.comps),
             Parent(ElsewhereDir.comps), ElsewhereDir.comps })
    \cup { [loc |-> ElsewhereFile.comps, node |-> FileNode] }
    \cup (IF ~h.local.present THEN { }
          ELSE IF h.local.via = "link"
            THEN { [loc |-> LocalRepo, node |-> RelativeLinkTo(LastOf(LocalStore), "dir")] }
                 \cup TreeNodes(LocalStore, h.local.lay)
          ELSE TreeNodes(LocalRepo, h.local.lay))
    \cup (IF h.cache.root = "absent" THEN { }
          ELSE IF h.cache.root = "link"
            THEN { [loc |-> Locate(IgorCacheDir), node |-> LinkTo(CacheStore, "dir")] }
                 \cup DirsAt({ CacheStore })
          ELSE { [loc |-> Locate(IgorCacheDir), node |-> KindNode(h.cache.root)] })
    \cup (IF h.cache.cloned
            THEN TreeNodes(Append(CacheReal(h), <<"p">>), h.cache.lay) ELSE { })
    \cup (IF h.install.present
            THEN DirsAt({ InstallReal(h) }
                        \cup { Append(InstallReal(h), v) : v \in h.install.dirs })
                 \cup (IF h.install.link
                         THEN { [loc |-> WaveMetricsDir.comps,
                                 node |-> LinkTo(InstallStore, "dir")] }
                         ELSE { })
                 \cup (IF h.install.file
                         THEN { [loc |-> Append(InstallReal(h), <<"readme.txt">>),
                                 node |-> FileNode] }
                         ELSE { })
            ELSE { })
    \cup (IF h.dest.provisioned
            THEN DirsAt({ Parent(DestRoot(V90)), DestRoot(V90),
                          Locate(get_wave_metrics_path(V90, UserProcedures)),
                          Locate(get_wave_metrics_path(V90, IgorProcedures)) })
                 \cup { [loc |-> Append(Locate(get_wave_metrics_path(V90, UserProcedures)), n),
                         node |-> FileNode] : n \in h.dest.upre }
                 \cup { [loc |-> Append(Locate(get_wave_metrics_path(V90, IgorProcedures)), n),
                         node |-> FileNode] : n \in h.dest.ipre }
            ELSE { })

HostFs(h) == MkFs(HostNodes(h))

(***************************************************************************)
(* State                                                                   *)
(***************************************************************************)
VARIABLES
    argv,           \* the command line: cmd, --git, --path, --version
    fs,             \* the file system
    remote,         \* what a clone of the remote repository yields
    mayLink,        \* whether the process may create symbolic links
    pc,             \* the program position
    runs,           \* the number of times the program was started
    repo_path,      \* main: the source argument
    repo_dir,       \* install_procedure_files: the resolved directory
    igor_version,   \* install_procedure_files: the selected version
    user_procs,     \* install_procedure_files: destination of the user role
    igor_procs,     \* install_procedure_files: destination of the igor role
    batch,          \* which link_files call is running: "user" or "igor"
    todo,           \* link_files: the entries the loop has not reached
    out,            \* what was printed
    status,         \* the exit status: -1 while running
    ops,            \* the kinds of file system and console operations done in this run
    symlinks,       \* the number of symlink calls made in this run
    clones,         \* the number of clones completed, over all runs
    fs0,            \* the file system when this run started
    prev_repo_dir   \* the directory the previous run resolved

vars == << argv, fs, remote, mayLink, pc, runs, repo_path, repo_dir, igor_version,
           user_procs, igor_procs, batch, todo, out, status, ops, symlinks, clones,
           fs0, prev_repo_dir >>

host == << argv, remote, mayLink >>
hist == << runs, fs0, prev_repo_dir >>
locals == << repo_path, repo_dir, igor_version, user_procs, igor_procs, batch, todo >>

Init ==
    \E h \in Hosts :
        /\ argv = h.argv
        /\ fs = HostFs(h)
        /\ fs0 = HostFs(h)
        /\ remote = h.remote
        /\ mayLink = h.mayLink
        /\ pc = "main"
        /\ runs = 1
        /\ repo_path = NoText
        /\ repo_dir = NoPath
        /\ igor_version = NoText
        /\ user_procs = NoPath
        /\ igor_procs = NoPath
        /\ batch = "user"
        /\ todo = { }
        /\ out = << >>
        /\ status = -1
        /\ ops = { }
        /\ symlinks = 0
        /\ clones = 0
        /\ prev_repo_dir = NoPath

\* exit(1), or main returning Err: the message and a non-zero status
Abort(msgs) ==
    /\ out' = out \o msgs
    /\ status' = 1
    /\ pc' = "done"

(***************************************************************************)
(* main                                                                    *)
(***************************************************************************)
\* get_matches: what clap does with the command line before main goes on.
\* The flags belong to install: with versions they are an error; without a
\* subcommand --git and --path are an error and --version is clap's own version flag
HasFlags(a) == a.git.some \/ a.path.some \/ a.version.some
ClapError(a) ==
    \/ a.cmd = "versions" /\ HasFlags(a)
    \/ a.cmd = "none" /\ (a.git.some \/ a.path.some)
ClapVersion(a) == a.cmd = "none" /\ a.version.some

\* get_matches rejects the command line: the error and exit status 2
MainRejected ==
    /\ pc = "main"
    /\ ClapError(argv)
    /\ out' = Append(out, Msg("clap_error", << >>))
    /\ status' = 2
    /\ pc' = "done"
    /\ UNCHANGED << host, hist, fs, locals, ops, symlinks, clones >>

\* get_matches meets the version flag: "Igor CLI 0.1" and exit status 0
MainClapVersion ==
    /\ pc = "main"
    /\ ClapVersion(argv)
    /\ out' = Append(out, Msg("clap_version", << >>))
    /\ status' = 0
    /\ pc' = "done"
    /\ UNCHANGED << host, hist, fs, locals, ops, symlinks, clones >>

\* install with a source: install_procedure_files is entered
MainInstall ==
    /\ pc = "main"
    /\ argv.cmd = "install"
    /\ RepoPathArg(argv).some
    /\ repo_path' = RepoPathArg(argv)
    /\ pc' = "resolve"
    /\ UNCHANGED << host, hist, fs, repo_dir, igor_version, user_procs, igor_procs,
                    batch, todo, out, status, ops, symlinks, clones >>

\* install without --git and --path: the usage message and exit(1)
MainUsage ==
    /\ pc = "main"
    /\ argv.cmd = "install"
    /\ ~RepoPathArg(argv).some
    /\ Abort(<< Msg("usage", << >>) >>)
    /\ UNCHANGED << host, hist, fs, locals, ops, symlinks, clones >>

\* versions: list_igor_versions
MainVersions ==
    /\ pc = "main"
    /\ argv.cmd = "versions"
    /\ ~HasFlags(argv)
    /\ ops' = ops \cup {"read_dir"}
    /\ IF ReadDirOk(fs, WaveMetricsDir)
         THEN \E order \in Perms(ListedVersions(fs)) :
                /\ out' = out \o << Msg("versions", << >>) >>
                              \o [i \in 1..Len(order) |-> Msg("version", order[i])]
                /\ status' = 0
                /\ pc' = "done"
         ELSE Abort(<< Msg("error", <<"read_dir">>) >>)
    /\ UNCHANGED << host, hist, fs, locals, symlinks, clones >>

\* no subcommand: Ok(())
MainNothing ==
    /\ pc = "main"
    /\ argv.cmd = "none"
    /\ ~HasFlags(argv)
    /\ status' = 0
    /\ pc' = "done"
    /\ UNCHANGED << host, hist, fs, locals, out, ops, symlinks, clones >>

(***************************************************************************)
(* install_procedure_files                                                 *)
(***************************************************************************)
\* clone_repository_into_igor, entered when is_git_url holds
CloneRepositoryIntoIgor ==
    /\ pc = "resolve"
    /\ is_git_url(repo_path.v)
    /\ LET made == ~Exists(fs, IgorCacheDir)
           dir == RepoDirOf(repo_path.v)
       IN  IF made /\ ~CreateDirAllOk(fs, Locate(IgorCacheDir))
             THEN /\ ops' = ops \cup {"cache", "mkdir"}
                  /\ Abort(<< Msg("error", <<"create_dir_all">>) >>)
                  /\ UNCHANGED << fs, clones, repo_dir >>
             ELSE LET f1 == IF made THEN CreateDirAll(fs, Locate(IgorCacheDir)) ELSE fs
                      o1 == IF made THEN << Msg("created", << >>) >> ELSE << >>
                      o == {"cache", "stat"} \cup (IF made THEN {"mkdir"} ELSE { })
                  IN  IF NeedsClone(f1, dir)
                        THEN /\ ops' = ops \cup o \cup {"clone"}
                             /\ IF CloneOk(f1, dir, remote)
                                  THEN /\ fs' = WithNodes(f1, TreeNodes(CloneLoc(f1, dir), remote.lay))
                                       /\ clones' = clones + 1
                                       /\ out' = out \o o1 \o << Msg("cloning", << >>) >>
                                       /\ repo_dir' = Some(dir)
                                       /\ pc' = "validate"
                                       /\ UNCHANGED status
                                  ELSE /\ fs' = f1
                                       /\ Abort(o1 \o << Msg("cloning", << >>),
                                                        Msg("error", <<"clone">>) >>)
                                       /\ UNCHANGED << clones, repo_dir >>
                        ELSE /\ ops' = ops \cup o
                             /\ fs' = f1
                             /\ out' = out \o o1 \o << Msg("exists", << >>) >>
                             /\ repo_dir' = Some(dir)
                             /\ pc' = "validate"
                             /\ UNCHANGED << clones, status >>
    /\ UNCHANGED << host, hist, repo_path, igor_version, user_procs, igor_procs,
                    batch, todo, symlinks >>

\* the other branch: the text is used as the path
UseLocalPath ==
    /\ pc = "resolve"
    /\ ~is_git_url(repo_path.v)
    /\ repo_dir' = Some(PathNew(repo_path.v))
    /\ pc' = "validate"
    /\ UNCHANGED << host, hist, fs, repo_path, igor_version, user_procs, igor_procs,
                    batch, todo, out, status, ops, symlinks, clones >>

\* the structure check
VerifyStructure ==
    /\ pc = "validate"
    /\ ops' = ops \cup {"stat"}
    /\ IF StructureOk(fs, repo_dir.v)
         THEN /\ pc' = "version"
              /\ UNCHANGED << out, status >>
         ELSE Abort(<< Msg("missing", << >>) >>)
    /\ UNCHANGED << host, hist, fs, locals, symlinks, clones >>

\* Some(v) => v.to_string()
UseGivenVersion ==
    /\ pc = "version"
    /\ argv.version.some
    /\ igor_version' = argv.version
    /\ pc' = "paths"
    /\ UNCHANGED << host, hist, fs, repo_path, repo_dir, user_procs, igor_procs,
                    batch, todo, out, status, ops, symlinks, clones >>

\* None => select_igor_version(): the listing, the prompt and the line read
select_igor_version ==
    /\ pc = "version"
    /\ ~argv.version.some
    /\ IF ReadDirOk(fs, WaveMetricsDir)
         THEN \E order \in Perms(ListedVersions(fs)), line \in TypedLines :
                /\ out' = out \o << Msg("versions", << >>) >>
                              \o [i \in 1..Len(order) |-> Msg("version", order[i])]
                              \o << Msg("prompt", << >>) >>
                /\ ops' = ops \cup {"read_dir", "stdin"}
                /\ igor_version' = Some(Trim(line))
                /\ pc' = "paths"
                /\ UNCHANGED status
         ELSE /\ Abort(<< Msg("error", <<"read_dir">>) >>)
              /\ ops' = ops \cup {"read_dir"}
              /\ UNCHANGED igor_version
    /\ UNCHANGED << host, hist, fs, repo_path, repo_dir, user_procs, igor_procs,
                    batch, todo, symlinks, clones >>

\* the two get_wave_metrics_path calls
LocateProcedures ==
    /\ pc = "paths"
    /\ user_procs' = Some(get_wave_metrics_path(igor_version.v, UserProcedures))
    /\ igor_procs' = Some(get_wave_metrics_path(igor_version.v, IgorProcedures))
    /\ batch' = "user"
    /\ pc' = "open"
    /\ UNCHANGED << host, hist, fs, repo_path, repo_dir, igor_version, todo, out,
                    status, ops, symlinks, clones >>

(***************************************************************************)
(* link_files                                                              *)
(***************************************************************************)
SrcDir == Join(repo_dir.v, IF batch = "user" THEN UserText ELSE IgorText)
DstDir == IF batch = "user" THEN user_procs.v ELSE igor_procs.v

\* fs::read_dir(src_dir)?
LinkFilesOpen ==
    /\ pc = "open"
    /\ ops' = ops \cup {"read_dir"}
    /\ IF ReadDirOk(fs, SrcDir)
         THEN /\ todo' = LinkEntries(fs, SrcDir)
              /\ pc' = "loop"
              /\ UNCHANGED << out, status >>
         ELSE /\ Abort(<< Msg("error", <<"read_dir">>) >>)
              /\ UNCHANGED todo
    /\ UNCHANGED << host, hist, fs, repo_path, repo_dir, igor_version, user_procs,
                    igor_procs, batch, symlinks, clones >>

\* a plausible slip: the error of a link call is dropped and the loop goes on
LinkError_ignored(name) ==
    /\ todo' = todo \ {name}
    /\ UNCHANGED << fs, out, status, pc >>

\* symlink_file(..)? / symlink_dir(..)?: the error leaves link_files, then main
LinkError(name) ==
    /\ Abort(<< Msg("error", <<"symlink">>) >>)
    /\ UNCHANGED << fs, todo >>

\* one iteration of the loop, on the entry read_dir yields next
LinkFilesEntry ==
    /\ pc = "loop"
    /\ \E name \in todo :
         LET src_path == Join(SrcDir, name)
             dst_path == Join(DstDir, name)
             kind == EntryKind(fs, src_path)
         IN  /\ ops' = ops \cup {"stat"} \cup (IF kind = "skip" THEN { } ELSE {"symlink"})
             /\ IF kind = "skip"
                  THEN /\ todo' = todo \ {name}
                       /\ UNCHANGED << fs, out, status, pc, symlinks >>
                  ELSE /\ symlinks' = symlinks + 1
                       /\ IF SymlinkOk(fs, dst_path, mayLink)
                            THEN /\ fs' = WithLink(fs, src_path, dst_path, kind)
                                 /\ todo' = todo \ {name}
                                 /\ UNCHANGED << out, status, pc >>
                            ELSE LinkError(name)
    /\ UNCHANGED << host, hist, repo_path, repo_dir, igor_version, user_procs,
                    igor_procs, batch, clones >>

\* the loop is over: Ok(()), and the next call or the success message
LinkFilesReturn ==
    /\ pc = "loop"
    /\ todo = { }
    /\ IF batch = "user"
         THEN /\ batch' = "igor"
              /\ pc' = "open"
              /\ UNCHANGED << out, status >>
         ELSE /\ out' = Append(out, Msg("success", igor_version.v))
              /\ status' = 0
              /\ pc' = "done"
              /\ UNCHANGED batch
    /\ UNCHANGED << host, hist, fs, repo_path, repo_dir, igor_version, user_procs,
                    igor_procs, todo, ops, symlinks, clones >>

(***************************************************************************)
(* The program is started again with the same command line                 *)
(***************************************************************************)
Rerun ==
    /\ pc = "done"
    /\ runs < MaxRuns
    /\ runs' = runs + 1
    /\ fs0' = fs
    /\ prev_repo_dir' = repo_dir
    /\ pc' = "main"
    /\ repo_path' = NoText
    /\ repo_dir' = NoPath
    /\ igor_version' = NoText
    /\ user_procs' = NoPath
    /\ igor_procs' = NoPath
    /\ batch' = "user"
    /\ todo' = { }
    /\ out' = << >>
    /\ status' = -1
    /\ ops' = { }
    /\ symlinks' = 0
    /\ UNCHANGED << host, fs, clones >>

Next ==
    \/ MainRejected
    \/ MainClapVersion
    \/ MainInstall
    \/ MainUsage
    \/ MainVersions
    \/ MainNothing
    \/ CloneRepositoryIntoIgor
    \/ UseLocalPath
    \/ VerifyStructure
    \/ UseGivenVersion
    \/ select_igor_version
    \/ LocateProcedures
    \/ LinkFilesOpen
    \/ LinkFilesEntry
    \/ LinkFilesReturn
    \/ Rerun

Spec == Init /\ [][Next]_vars

(***************************************************************************)
(* Notions the properties use                                              *)
(***************************************************************************)
\* The links this run has created under the documents directory
CreatedLinks ==
    { l \in DOMAIN fs \ DOMAIN fs0 : fs[l].type = "symlink" /\ IsPrefix(DocumentDir.comps, l) }

Printed(m) == \E i \in 1..Len(out) : out[i].msg = m

\* The text begins with the literal http or git, stated character by character
HasRemotePrefix(s) ==
    \/ Len(s) >= 4 /\ s[1] = "h" /\ s[2] = "t" /\ s[3] = "t" /\ s[4] = "p"
    \/ Len(s) >= 3 /\ s[1] = "g" /\ s[2] = "i" /\ s[3] = "t"

\* Two paths are the same path: root and components, whatever separator ends the text
SamePath(p, q) == p.abs = q.abs /\ p.comps = q.comps

\* The clone path was entered: clone_repository_into_igor looked at the cache directory
ClonePathTaken == "cache" \in ops

Resolved == pc \notin {"main", "resolve"} /\ repo_path.some

\* C1: a source text is resolved through the clone path exactly when it begins
\* with http or git (case-sensitive); for any other text nothing is cloned and the
\* cache directory is neither created nor changed.
C1_RemoteIffPrefix ==
    Resolved =>
        /\ ClonePathTaken <=> HasRemotePrefix(repo_path.v)
        /\ ~HasRemotePrefix(repo_path.v) =>
              /\ ops \cap {"clone", "mkdir", "cache"} = { }
              /\ ~Printed("cloning") /\ ~Printed("exists") /\ ~Printed("created")
              /\ \A l \in DOMAIN fs \cup DOMAIN fs0 :
                    IsPrefix(Locate(IgorCacheDir), l) => l \in DOMAIN fs /\ l \in DOMAIN fs0
              /\ repo_dir.some => repo_dir.v = PathNew(repo_path.v)

C1_Witness ==
    /\ pc = "done"
    /\ status = 0
    /\ repo_path.v = <<"g", "i", "t", "/", "p">>
    /\ "clone" \in ops
    /\ runs = 1

\* The directory a remote text is kept in is there, however it is reached: the
\* cache root or a link standing for it holds an entry of the text's last segment
TargetThere ==
    LET root == Locate(IgorCacheDir)
        real == IF root \in DOMAIN fs /\ fs[root].type = "symlink"
                  THEN fs[root].target.comps ELSE root
        segs == Split(repo_path.v, Sep)
        name == segs[Len(segs)]
    IN  /\ root \in DOMAIN fs
        /\ real \in DOMAIN fs /\ fs[real].type = "dir"
        /\ IF name = << >> THEN TRUE
           ELSE Append(real, name) \in DOMAIN fs /\ fs[Append(real, name)].type = "dir"

\* C2: when the target directory of a remote source already exists, resolving it
\* clones nothing, leaves the file system as it is and returns that directory,
\* the one the previous run returned; over the runs on one URL at most one clone
\* is made, and once one is made no later run attempts another.
C2_ReuseIsIdempotent ==
    [][ /\ clones' <= 1
        /\ (pc = "resolve" /\ clones >= 1) => "clone" \notin ops'
        /\ (pc = "resolve" /\ is_git_url(repo_path.v) /\ TargetThere) =>
              /\ fs' = fs
              /\ clones' = clones
              /\ "clone" \notin ops'
              /\ pc' = "validate"
              /\ repo_dir' = Some(RepoDirOf(repo_path.v))
              /\ prev_repo_dir.some => repo_dir' = prev_repo_dir ]_vars

C2_Witness ==
    /\ runs = 2
    /\ pc = "validate"
    /\ clones = 1
    /\ repo_dir.some
    /\ repo_dir = prev_repo_dir
    /\ "clone" \notin ops
    /\ fs = fs0
    /\ fs[Locate(IgorCacheDir)].type = "symlink"

\* C3: if the resolved directory lacks the user subdirectory or the igor subdirectory,
\* the run ends with a non-zero status before a version is selected, before a
\* destination path is computed and before a link is created.
C3_MissingSubdirAborts ==
    (repo_dir.some /\ pc # "validate"
        /\ (~IsDir(fs, Join(repo_dir.v, UserText)) \/ ~IsDir(fs, Join(repo_dir.v, IgorText)))) =>
        /\ pc = "done"
        /\ status = 1
        /\ ~igor_version.some
        /\ ~user_procs.some
        /\ ~igor_procs.some
        /\ ops \cap {"stdin", "symlink"} = { }
        /\ CreatedLinks = { }

\* C4: once a link call has failed the run is over with a non-zero status: the
\* failed call is the last one made, the entry it was made for and the entries after
\* it have no link, a later batch was not started, the success message is not
\* printed, and the links made before it are in place.
C4_LinkFailureAborts ==
    symlinks > Cardinality(CreatedLinks) =>
        /\ pc = "done"
        /\ status = 1
        /\ symlinks = Cardinality(CreatedLinks) + 1
        /\ ~Printed("success")
        /\ todo # { }
        /\ \A n \in todo : Locate(Join(DstDir, n)) \notin CreatedLinks
        /\ batch = "user" => \A l \in CreatedLinks : ~IsPrefix(Locate(igor_procs.v), l)
        /\ \A l \in DOMAIN fs0 : l \in DOMAIN fs /\ fs[l] = fs0[l]

C4_Witness ==
    /\ pc = "done"
    /\ batch = "igor"
    /\ status = 1
    /\ Cardinality(CreatedLinks) >= 2
    /\ symlinks = Cardinality(CreatedLinks) + 1
    /\ \A l \in CreatedLinks : IsPrefix(Locate(user_procs.v), l)

\* Where a link leads: its target looked up, a relative one from the directory
\* holding the link
LeadsTo(l) == Follow(fs, TargetOf(fs, l), MaxHops)

\* The links of one successful link_files call are exactly one per immediate child
\* of the source directory that is a regular file or a directory, named like the
\* child, leading to the child, of the child's kind
BatchExact(src, dst) ==
    LET kids == { l \in DOMAIN fs0 : Len(l) > 0 /\ Parent(l) = Reach(fs0, src).loc }
        wanted == { l \in kids : fs0[l].type \in {"file", "dir"} }
    IN  /\ { l \in CreatedLinks : IsPrefix(Locate(dst), l) }
              = { Append(Locate(dst), LastOf(l)) : l \in wanted }
        /\ \A l \in wanted :
              /\ fs[Append(Locate(dst), LastOf(l))].linkkind = fs0[l].type
              /\ LeadsTo(Append(Locate(dst), LastOf(l))) = At(l)

\* C5: when link_files returns successfully, the links it created are exactly one
\* per immediate child that is a regular file or a directory, each at
\* dest_dir/<child name>, pointing at that child, of the child's kind.
C5_LinksExactlyChildren ==
    (pc = "done" /\ status = 0 /\ Printed("success")) =>
        /\ BatchExact(Join(repo_dir.v, UserText), user_procs.v)
        /\ BatchExact(Join(repo_dir.v, IgorText), igor_procs.v)

\* C6: in an install without --version, an unreadable install root or one without
\* version directories ends the run with a non-zero status, without a prompt and
\* without a link.
C6_NoCandidatesAborts ==
    (argv.cmd = "install" /\ ~argv.version.some
        /\ (~ReadDirOk(fs, WaveMetricsDir) \/ ListedVersions(fs) = { })) =>
        /\ ~Printed("prompt")
        /\ "stdin" \notin ops
        /\ CreatedLinks = { }
        /\ pc \notin {"main", "resolve", "validate", "version"} => pc = "done" /\ status = 1

\* Byte order of the characters version names are written with
CharCode(c) ==
    CASE c = " " -> 32 [] c = "." -> 46 [] c = "0" -> 48 [] c = "1" -> 49
      [] c = "8" -> 56 [] c = "9" -> 57 [] OTHER -> 0

\* String order: byte by byte, a proper prefix first
RECURSIVE LexLeq(_, _)
LexLeq(a, b) ==
    IF a = << >> THEN TRUE
    ELSE IF b = << >> THEN FALSE
    ELSE IF a[1] = b[1] THEN LexLeq(Tail(a), Tail(b))
    ELSE CharCode(a[1]) < CharCode(b[1])

\* C7: without --version, and with candidates listed, the selected version is a
\* listed candidate that no other candidate exceeds in string order.
C7_SelectsLexMax ==
    (~argv.version.some /\ igor_version.some /\ ListedVersions(fs) # { }) =>
        /\ igor_version.v \in ListedVersions(fs)
        /\ \A c \in ListedVersions(fs) : LexLeq(c, igor_version.v)

\* C8: install with neither --git nor --path prints the usage message and ends with
\* a non-zero status, having touched nothing: no file system or console operation, no
\* clone, no directory, no version, no link.
C8_MissingSourceTouchesNothing ==
    (argv.cmd = "install" /\ ~argv.git.some /\ ~argv.path.some) =>
        /\ pc \in {"main", "done"}
        /\ ops = { }
        /\ fs = fs0
        /\ clones = 0
        /\ symlinks = 0
        /\ ~repo_dir.some
        /\ ~igor_version.some
        /\ pc = "done" => status = 1 /\ out = << Msg("usage", << >>) >>

C8_Witness ==
    /\ argv.cmd = "install"
    /\ ~argv.git.some
    /\ ~argv.path.some
    /\ ~argv.version.some
    /\ pc = "done"
    /\ status = 1
    /\ out = << Msg("usage", << >>) >>

\* The names the claim allows: the text after the last separator; the placeholder
\* when nothing follows the last separator; for a text without a separator, the
\* placeholder or the text itself
DerivedNames(s) ==
    LET seps == { i \in 1..Len(s) : s[i] = Sep }
    IN  IF seps = { } THEN { RepositoryText, s }
        ELSE LET k == CHOOSE i \in seps : \A j \in seps : j <= i
             IN  IF k = Len(s) THEN { RepositoryText } ELSE { SubSeq(s, k + 1, Len(s)) }

\* C9: the directory of a remote source is <home>/.igor/<name>, <name> the text
\* after the last separator or the placeholder "repository"; it is a proper child of
\* the cache root.
C9_RepoDirIsChildOfCache ==
    (repo_dir.some /\ repo_path.some /\ is_git_url(repo_path.v)) =>
        /\ \E n \in DerivedNames(repo_path.v) :
              repo_dir.v.comps = Append(Locate(IgorCacheDir), n)
        /\ Len(repo_dir.v.comps) = Len(Locate(IgorCacheDir)) + 1
        /\ ~SamePath(repo_dir.v, IgorCacheDir)

\* C10: a local source that passed the structure check is held as an absolute path,
\* and every link the run creates has an absolute target.
C10_LocalPathIsAbsolute ==
    (repo_dir.some /\ repo_path.some /\ ~is_git_url(repo_path.v)) =>
        /\ pc \notin {"main", "resolve", "validate"} => repo_dir.v.abs
        /\ \A l \in CreatedLinks : fs[l].target.abs

====
